---------------------------- MODULE Spec2Model ----------------------------
(***************************************************************************)
(* TransformerConfig.__post_init__                                         *)
(* (megatron_patch/model/mixtral/transformer_config.py).                   *)
(*                                                                         *)
(* The dataclass-generated __init__ stores the constructor arguments in    *)
(* the fields of self and then calls __post_init__, which resolves the     *)
(* omitted fields and validates the configuration.  The statements of      *)
(* __post_init__ run in sequence; the first exception raised ends the      *)
(* construction.  An optional field holds None or a value: None is the     *)
(* empty tuple and a value v is the tuple <<v>>.                           *)
(***************************************************************************)
EXTENDS Integers, Sequences, FiniteSets, TLC

VARIABLES args, self, pc, exc

vars == <<args, self, pc, exc>>

\* ------------------------------------------------------------------ bounds
MaxHeads == 2
MaxTP == 2
MaxPP == 2
MaxVPP == 2
MaxLayers == 2
MaxHidden == 3

\* ------------------------------------------------------------ Python values
None == << >>
Some(v) == <<v>>
Value(x) == x[1]
Optional(S) == {None} \cup {Some(v) : v \in S}

\* Python truthiness of an Optional[bool] field (None is falsy).
Truthy(x) == x # None /\ Value(x)

NoExc == "none"
ValueError == "ValueError"
ZeroDivisionError == "ZeroDivisionError"

\* --------------------------------------------------- constructor arguments
\* fp16, bf16 (fields of the parent ModelParallelConfig read at line 150).
PrecisionArgs ==
    [fp16 : BOOLEAN, bf16 : BOOLEAN]

\* Fields read by lines 155-174.
ShapeArgs ==
    [tensor_model_parallel_size : 0..MaxTP,
     num_attention_heads : 0..MaxHeads,
     num_query_groups : Optional(0..MaxHeads),
     hidden_size : 0..MaxHidden,
     ffn_hidden_size : Optional({5}),
     kv_channels : Optional({7})]

\* Fields read by lines 182-234 and 254.
LayerArgs ==
    [num_layers : 0..MaxLayers,
     cpu_offloading_num_layers : (-1)..MaxLayers,
     cpu_offloading : BOOLEAN,
     pipeline_model_parallel_size : 0..MaxPP,
     recompute_granularity : Optional({"full", "selective", "other"}),
     recompute_method : Optional({"block", "uniform", "other"}),
     recompute_num_layers : Optional(0..MaxLayers),
     virtual_pipeline_model_parallel_size : Optional(0..MaxVPP),
     distribute_saved_activations : Optional(BOOLEAN),
     sequence_parallel : BOOLEAN]

\* Fields read by lines 176-180 and 236-253.
MiscArgs ==
    [bias_activation_fusion : BOOLEAN,
     activation_func : {"gelu", "silu", "relu"},
     add_bias_linear : BOOLEAN,
     expert_model_parallel_size : {1, 2},
     num_moe_experts : Optional({2}),
     apply_query_key_layer_scaling : BOOLEAN,
     attention_softmax_in_fp32 : BOOLEAN,
     init_method : Optional({"custom"}),
     output_layer_init_method : Optional({"custom"})]

\* The arguments left at the defaults of the field declarations.
PrecisionUnset ==
    [fp16 |-> FALSE, bf16 |-> FALSE]

ShapeUnset ==
    [tensor_model_parallel_size |-> 1, num_attention_heads |-> 0,
     num_query_groups |-> None, hidden_size |-> 0,
     ffn_hidden_size |-> None, kv_channels |-> None]

LayerUnset ==
    [num_layers |-> 0, cpu_offloading_num_layers |-> 0,
     cpu_offloading |-> FALSE, pipeline_model_parallel_size |-> 1,
     recompute_granularity |-> None, recompute_method |-> None,
     recompute_num_layers |-> None,
     virtual_pipeline_model_parallel_size |-> None,
     distribute_saved_activations |-> None, sequence_parallel |-> FALSE]

MiscUnset ==
    [bias_activation_fusion |-> FALSE, activation_func |-> "gelu",
     add_bias_linear |-> TRUE, expert_model_parallel_size |-> 1,
     num_moe_experts |-> None, apply_query_key_layer_scaling |-> FALSE,
     attention_softmax_in_fp32 |-> TRUE, init_method |-> None,
     output_layer_init_method |-> None]

\* A caller that sets the model dimensions and nothing else.
ShapeGiven ==
    [ShapeUnset EXCEPT !.num_attention_heads = 1, !.hidden_size = 1]

LayerGiven ==
    [LayerUnset EXCEPT !.num_layers = 1]

\* A caller that also turns selective activation recomputation on.
LayerSelective ==
    [LayerGiven EXCEPT !.recompute_granularity = Some("selective")]

\* The keyword arguments of one call TransformerConfig(...).
Kwargs(p, s, l, m) ==
    [fp16 |-> p.fp16, bf16 |-> p.bf16,
     tensor_model_parallel_size |-> s.tensor_model_parallel_size,
     num_attention_heads |-> s.num_attention_heads,
     num_query_groups |-> s.num_query_groups,
     hidden_size |-> s.hidden_size,
     ffn_hidden_size |-> s.ffn_hidden_size,
     kv_channels |-> s.kv_channels,
     num_layers |-> l.num_layers,
     cpu_offloading_num_layers |-> l.cpu_offloading_num_layers,
     cpu_offloading |-> l.cpu_offloading,
     pipeline_model_parallel_size |-> l.pipeline_model_parallel_size,
     recompute_granularity |-> l.recompute_granularity,
     recompute_method |-> l.recompute_method,
     recompute_num_layers |-> l.recompute_num_layers,
     virtual_pipeline_model_parallel_size |-> l.virtual_pipeline_model_parallel_size,
     distribute_saved_activations |-> l.distribute_saved_activations,
     sequence_parallel |-> l.sequence_parallel,
     bias_activation_fusion |-> m.bias_activation_fusion,
     activation_func |-> m.activation_func,
     add_bias_linear |-> m.add_bias_linear,
     expert_model_parallel_size |-> m.expert_model_parallel_size,
     num_moe_experts |-> m.num_moe_experts,
     apply_query_key_layer_scaling |-> m.apply_query_key_layer_scaling,
     attention_softmax_in_fp32 |-> m.attention_softmax_in_fp32,
     init_method |-> m.init_method,
     output_layer_init_method |-> m.output_layer_init_method]

\* The calls explored with the arguments of the groups drawn from P, S, L, M.
Called(P, S, L, M) ==
    \E p \in P, s \in S, l \in L, m \in M : args = Kwargs(p, s, l, m)

\* ------------------------------------------------- statements of the method
\* The state s of a run of __post_init__: the object s.self and the exception
\* s.exc it has raised, if any.  Every statement is a step from the state
\* before it to the state after it; once an exception is raised the
\* statements that follow do not run.
Ok(c) == [self |-> c, exc |-> NoExc]
Raise(s, e) == [s EXCEPT !.exc = e]
Raised(s) == s.exc # NoExc

\* Lines 150-153.
precision_unchecked(s) == s

check_precision(s) ==
    IF Raised(s) THEN s
    ELSE IF s.self.fp16 /\ s.self.bf16 THEN Raise(s, ValueError) ELSE s

\* Lines 155-159.  The % of a zero tensor_model_parallel_size raises.
check_num_attention_heads(s) ==
    IF Raised(s) THEN s
    ELSE IF s.self.tensor_model_parallel_size = 0
         THEN Raise(s, ZeroDivisionError)
         ELSE IF s.self.num_attention_heads % s.self.tensor_model_parallel_size # 0
              THEN Raise(s, ValueError)
              ELSE s

\* Lines 161-162.
ffn_hidden_size_overwritten(s) ==
    IF Raised(s) THEN s
    ELSE [s EXCEPT !.self.ffn_hidden_size = Some(4 * s.self.hidden_size)]

default_ffn_hidden_size(s) ==
    IF Raised(s) THEN s
    ELSE IF s.self.ffn_hidden_size = None
         THEN [s EXCEPT !.self.ffn_hidden_size = Some(4 * s.self.hidden_size)]
         ELSE s

\* Lines 164-165.  The // by a zero num_attention_heads raises.
default_kv_channels(s) ==
    IF Raised(s) THEN s
    ELSE IF s.self.kv_channels = None
         THEN IF s.self.num_attention_heads = 0
              THEN Raise(s, ZeroDivisionError)
              ELSE [s EXCEPT !.self.kv_channels =
                        Some(s.self.hidden_size \div s.self.num_attention_heads)]
         ELSE s

\* Lines 167-168.
default_num_query_groups(s) ==
    IF Raised(s) THEN s
    ELSE IF s.self.num_query_groups = None
         THEN [s EXCEPT !.self.num_query_groups = Some(s.self.num_attention_heads)]
         ELSE s

\* Lines 170-174.
check_num_query_groups(s) ==
    IF Raised(s) THEN s
    ELSE IF s.self.tensor_model_parallel_size = 0
         THEN Raise(s, ZeroDivisionError)
         ELSE IF Value(s.self.num_query_groups) % s.self.tensor_model_parallel_size # 0
              THEN Raise(s, ValueError)
              ELSE s

\* Lines 176-177 and again 236-237.
set_attention_softmax_in_fp32(s) ==
    IF Raised(s) THEN s
    ELSE IF s.self.apply_query_key_layer_scaling
         THEN [s EXCEPT !.self.attention_softmax_in_fp32 = TRUE]
         ELSE s

\* Lines 179-180.
check_expert_parallel(s) ==
    IF Raised(s) THEN s
    ELSE IF s.self.expert_model_parallel_size > 1 /\ s.self.num_moe_experts = None
         THEN Raise(s, ValueError)
         ELSE s

\* Lines 182-185.
check_cpu_offloading_num_layers(s) ==
    IF Raised(s) THEN s
    ELSE IF \/ s.self.cpu_offloading_num_layers < 0
            \/ s.self.cpu_offloading_num_layers >= s.self.num_layers
         THEN Raise(s, ValueError)
         ELSE s

\* Lines 187-190.
check_cpu_offloading_pipeline(s) ==
    IF Raised(s) THEN s
    ELSE IF s.self.cpu_offloading /\ s.self.pipeline_model_parallel_size > 1
         THEN Raise(s, ValueError)
         ELSE s

\* Lines 192-195.
check_cpu_offloading_recompute(s) ==
    IF Raised(s) THEN s
    ELSE IF s.self.cpu_offloading /\ s.self.recompute_granularity # None
         THEN Raise(s, ValueError)
         ELSE s

\* Lines 198-201.
check_recompute_granularity(s) ==
    IF Raised(s) THEN s
    ELSE IF s.self.recompute_granularity \notin {Some("full"), Some("selective")}
         THEN Raise(s, ValueError)
         ELSE s

\* Lines 203-211.
check_recompute_method(s) ==
    IF Raised(s) THEN s
    ELSE IF s.self.recompute_method # None
         THEN IF s.self.recompute_method \notin {Some("block"), Some("uniform")}
              THEN Raise(s, ValueError)
              ELSE s
         ELSE IF s.self.recompute_granularity # Some("selective")
              THEN Raise(s, ValueError)
              ELSE s

\* Lines 213-223.  The message of the first raise is formatted before the
\* raise and divides by pipeline_model_parallel_size.
check_recompute_num_layers(s) ==
    IF Raised(s) THEN s
    ELSE IF /\ s.self.recompute_granularity # Some("selective")
            /\ s.self.recompute_num_layers = None
         THEN IF s.self.pipeline_model_parallel_size = 0
              THEN Raise(s, ZeroDivisionError)
              ELSE Raise(s, ValueError)
         ELSE IF /\ s.self.recompute_granularity = Some("selective")
                 /\ s.self.recompute_num_layers # None
              THEN Raise(s, ValueError)
              ELSE s

\* Lines 225-228.
check_distribute_saved_activations(s) ==
    IF Raised(s) THEN s
    ELSE IF Truthy(s.self.distribute_saved_activations) /\ s.self.sequence_parallel
         THEN Raise(s, ValueError)
         ELSE s

\* Lines 230-234.  The % of a zero virtual_pipeline_model_parallel_size raises.
check_virtual_pipeline(s) ==
    IF Raised(s) THEN s
    ELSE IF s.self.virtual_pipeline_model_parallel_size # None
         THEN IF Value(s.self.virtual_pipeline_model_parallel_size) = 0
              THEN Raise(s, ZeroDivisionError)
              ELSE IF ~(s.self.num_layers
                          % Value(s.self.virtual_pipeline_model_parallel_size) = 0)
                   THEN Raise(s, ValueError)
                   ELSE s
         ELSE s

\* Lines 197-234: everything under "if self.recompute_granularity is not None".
check_recompute(s) ==
    IF Raised(s) THEN s
    ELSE IF s.self.recompute_granularity # None
         THEN check_virtual_pipeline(
              check_distribute_saved_activations(
              check_recompute_num_layers(
              check_recompute_method(
              check_recompute_granularity(s)))))
         ELSE s

\* Lines 239-247.
check_bias_activation_fusion(s) ==
    IF Raised(s) THEN s
    ELSE IF s.self.bias_activation_fusion
         THEN IF s.self.activation_func \notin {"gelu", "silu"}
              THEN Raise(s, ValueError)
              ELSE IF s.self.activation_func = "gelu" /\ ~s.self.add_bias_linear
                   THEN Raise(s, ValueError)
                   ELSE s
         ELSE s

\* Lines 249-255.
default_init_methods(s) ==
    IF Raised(s) THEN s
    ELSE [s EXCEPT
          !.self.init_method =
              IF @ = None THEN Some("init_method_normal") ELSE @,
          !.self.output_layer_init_method =
              IF @ = None THEN Some("scaled_init_method_normal") ELSE @]

\* Lines 150-255: the statements of __post_init__ after the call of super,
\* in the order of the source (the innermost call runs first).
post_init(c) ==
    default_init_methods(
    check_bias_activation_fusion(
    set_attention_softmax_in_fp32(
    check_recompute(
    check_cpu_offloading_recompute(
    check_cpu_offloading_pipeline(
    check_cpu_offloading_num_layers(
    check_expert_parallel(
    set_attention_softmax_in_fp32(
    check_num_query_groups(
    default_num_query_groups(
    default_kv_channels(
    default_ffn_hidden_size(
    check_num_attention_heads(
    check_precision(Ok(c))))))))))))))))

\* ------------------------------------------------------------ state machine
\* The state on entry to __post_init__: the generated __init__ has stored
\* the arguments in self.
\* Explored: every combination of the layer/offloading/recompute arguments,
\* of the precision and shape arguments, and of the remaining arguments, each
\* against callers that set or leave unset the other groups.
Init ==
    /\ \/ Called({PrecisionUnset}, {ShapeGiven, ShapeUnset}, LayerArgs, {MiscUnset})
       \/ Called(PrecisionArgs, ShapeArgs,
                 {LayerGiven, LayerUnset, LayerSelective}, {MiscUnset})
       \/ Called(PrecisionArgs, {ShapeGiven, ShapeUnset},
                 {LayerGiven, LayerUnset, LayerSelective}, MiscArgs)
    /\ self = args
    /\ pc = "super"
    /\ exc = NoExc

\* Line 149: super().__post_init__() is ModelParallelConfig's validation,
\* which lies outside this file; it either returns or rejects the
\* configuration with a ValueError, and leaves the fields read below alone.
SuperPostInitReturns ==
    /\ pc = "super"
    /\ pc' = "post_init"
    /\ UNCHANGED <<args, self, exc>>

SuperPostInitRaises ==
    /\ pc = "super"
    /\ pc' = "done"
    /\ exc' = ValueError
    /\ UNCHANGED <<args, self>>

\* Lines 150-255.
PostInit ==
    /\ pc = "post_init"
    /\ LET r == post_init(self)
       IN /\ self' = r.self
          /\ exc' = r.exc
    /\ pc' = "done"
    /\ UNCHANGED args

Next ==
    \/ SuperPostInitReturns
    \/ SuperPostInitRaises
    \/ PostInit

Spec == Init /\ [][Next]_vars

\* The construction returned an object.
Constructed == pc = "done" /\ exc = NoExc

\* --------------------------------------------------------------- properties
\* C1: precision modes are mutually exclusive: no constructed configuration
\* has fp16 and bf16 both True, and a construction given both is rejected
\* with a ValueError.
C1_PrecisionExclusive ==
    /\ Constructed => ~(self.fp16 /\ self.bf16)
    /\ (pc = "done" /\ args.fp16 /\ args.bf16) => exc = ValueError

\* C1 witness: a construction given fp16 = bf16 = True has been rejected.
C1_BothPrecisionsRejected ==
    pc = "done" /\ args.fp16 /\ args.bf16 /\ exc = ValueError

\* C2: in every constructed configuration num_attention_heads and the
\* resolved num_query_groups are multiples of tensor_model_parallel_size,
\* and a construction where either is not a multiple is rejected with a
\* ValueError.
C2_HeadsAndGroupsDivisible ==
    LET tp == args.tensor_model_parallel_size
        groups == IF args.num_query_groups = None
                  THEN args.num_attention_heads
                  ELSE Value(args.num_query_groups)
    IN /\ Constructed =>
            /\ tp # 0
            /\ self.num_attention_heads % tp = 0
            /\ self.num_query_groups # None
            /\ Value(self.num_query_groups) % tp = 0
       /\ ( /\ pc = "done"
            /\ tp # 0
            /\ (args.num_attention_heads % tp # 0 \/ groups % tp # 0) )
          => exc = ValueError

\* C3: recompute settings are consistent in every constructed configuration
\* (granularity None, 'full' or 'selective'; 'full' needs a method of 'block'
\* or 'uniform' and a recompute_num_layers; 'selective' needs
\* recompute_num_layers None and a method of None, 'block' or 'uniform'), and
\* a construction violating this is rejected with a ValueError.
C3_RecomputeConsistent ==
    LET Consistent(c) ==
            /\ c.recompute_granularity \in {None, Some("full"), Some("selective")}
            /\ c.recompute_granularity = Some("full") =>
                   /\ c.recompute_method \in {Some("block"), Some("uniform")}
                   /\ c.recompute_num_layers # None
            /\ c.recompute_granularity = Some("selective") =>
                   /\ c.recompute_num_layers = None
                   /\ c.recompute_method \in {None, Some("block"), Some("uniform")}
    IN /\ Constructed => Consistent(self)
       /\ (pc = "done" /\ ~Consistent(args)) => exc = ValueError

\* C4: every constructed configuration with cpu_offloading has
\* pipeline_model_parallel_size <= 1 and recompute_granularity None, and a
\* construction with cpu_offloading and pipeline_model_parallel_size > 1, or
\* with cpu_offloading and a recompute_granularity, is rejected with a
\* ValueError.
C4_CpuOffloadingCompatible ==
    /\ (Constructed /\ self.cpu_offloading) =>
           /\ self.pipeline_model_parallel_size <= 1
           /\ self.recompute_granularity = None
    /\ ( /\ pc = "done"
         /\ args.cpu_offloading
         /\ \/ args.pipeline_model_parallel_size > 1
            \/ args.recompute_granularity # None )
       => exc = ValueError

\* C5: every constructed configuration with bias_activation_fusion has
\* activation_func gelu or silu, and add_bias_linear True if it is gelu; a
\* construction violating this is rejected with a ValueError; and with
\* bias_activation_fusion False the outcome does not depend on activation_func
\* or add_bias_linear.
C5_FusedActivationCompatible ==
    LET Compatible(c) ==
            /\ c.activation_func \in {"gelu", "silu"}
            /\ c.activation_func = "gelu" => c.add_bias_linear
    IN /\ (Constructed /\ self.bias_activation_fusion) => Compatible(self)
       /\ (pc = "done" /\ args.bias_activation_fusion /\ ~Compatible(args))
          => exc = ValueError
       /\ ~args.bias_activation_fusion =>
              \A f \in {"gelu", "silu", "relu"}, b \in BOOLEAN :
                  post_init([args EXCEPT !.activation_func = f,
                                         !.add_bias_linear = b]).exc
                  = post_init(args).exc

\* C6: after a successful construction ffn_hidden_size is 4 * hidden_size if
\* it was omitted, kv_channels is hidden_size // num_attention_heads if it was
\* omitted, num_query_groups is num_attention_heads if it was omitted, and
\* each of the three keeps the value given otherwise.
C6_Defaulting ==
    Constructed =>
        /\ IF args.ffn_hidden_size = None
           THEN self.ffn_hidden_size = Some(4 * args.hidden_size)
           ELSE self.ffn_hidden_size = args.ffn_hidden_size
        /\ IF args.kv_channels = None
           THEN /\ args.num_attention_heads # 0
                /\ self.kv_channels =
                       Some(args.hidden_size \div args.num_attention_heads)
           ELSE self.kv_channels = args.kv_channels
        /\ IF args.num_query_groups = None
           THEN self.num_query_groups = Some(args.num_attention_heads)
           ELSE self.num_query_groups = args.num_query_groups

\* C6 witness: a configuration constructed with all three fields omitted and
\* a hidden_size that num_attention_heads does not divide.
C6_AllThreeDefaulted ==
    /\ Constructed
    /\ args.ffn_hidden_size = None
    /\ args.kv_channels = None
    /\ args.num_query_groups = None
    /\ args.num_attention_heads # 0
    /\ args.hidden_size % args.num_attention_heads # 0

\* C7: every constructed configuration with recompute_granularity 'full'
\* has 1 <= recompute_num_layers <= num_layers // pipeline_model_parallel_size.
C7_RecomputeNumLayersInRange ==
    ( /\ Constructed
      /\ self.recompute_granularity = Some("full")
      /\ self.pipeline_model_parallel_size >= 1 )
    => /\ self.recompute_num_layers # None
       /\ 1 <= Value(self.recompute_num_layers)
       /\ Value(self.recompute_num_layers)
              <= self.num_layers \div self.pipeline_model_parallel_size

\* C8: every constructed configuration with a (nonzero)
\* virtual_pipeline_model_parallel_size has num_layers divisible by it,
\* whatever the value of recompute_granularity.
C8_LayersDivisibleByVirtualPipeline ==
    ( /\ Constructed
      /\ self.virtual_pipeline_model_parallel_size # None
      /\ self.virtual_pipeline_model_parallel_size # Some(0) )
    => self.num_layers % Value(self.virtual_pipeline_model_parallel_size) = 0

\* C9: every constructed configuration has
\* 0 <= cpu_offloading_num_layers < num_layers, hence num_layers >= 1, and a
\* construction with cpu_offloading_num_layers outside that range is rejected
\* with a ValueError, whether or not cpu_offloading is enabled.
C9_CpuOffloadingNumLayersInRange ==
    /\ Constructed =>
           /\ 0 <= self.cpu_offloading_num_layers
           /\ self.cpu_offloading_num_layers < self.num_layers
           /\ self.num_layers >= 1
    /\ ( /\ pc = "done"
         /\ \/ args.cpu_offloading_num_layers < 0
            \/ args.cpu_offloading_num_layers >= args.num_layers )
       => exc = ValueError

\* C10: the statements of __post_init__ either complete or reject the
\* configuration with a ValueError; in particular a construction with
\* num_attention_heads = 0 and kv_channels omitted ends in a ValueError.
C10_OnlyValueError ==
    /\ pc = "done" => exc \in {NoExc, ValueError}
    /\ (pc = "done" /\ args.num_attention_heads = 0 /\ args.kv_channels = None)
       => exc = ValueError

====
